---- MODULE Spec2Model ----
(***************************************************************************)
(* The AR viewer's two asynchronous sequences:                             *)
(*   - ARViewer.initializeApp (location -> camera -> database -> ready),   *)
(*   - CameraView.startCamera (bounded attempts x constraint levels) with  *)
(*     stopCamera, toggleCamera, switchCamera, the isActive effect and the *)
(*     unmount cleanup.                                                    *)
(* CameraView is rendered by ARViewer once isInitialized is true, with     *)
(* isActive = cameraActive and onToggle = setCameraActive.                 *)
(*                                                                         *)
(* One action is one run-to-completion step of the JavaScript event loop:  *)
(* a handler or an async function from one await to the next.  State       *)
(* setters are modelled as assignments.                                    *)
(***************************************************************************)
EXTENDS Naturals, FiniteSets, Sequences, TLC

\* ------------------------------------------------------------ constants
\* const maxAttempts = 3
maxAttempts == 3
\* const maxConstraintLevels = 5
maxConstraintLevels == 5

\* ------------------------------------------------------------ bounds
\* startCamera invocations that can be in flight at the same time
MaxCalls == 2
\* button presses of the user over a run
MaxPresses == 2
\* media streams that exist (live or referenced) at the same time
MaxStreams == 2
\* switchToBlockDAG invocations over a run
MaxSwitchCalls == 2

Calls == 1..MaxCalls
Streams == 1..MaxStreams
\* streamRef.current = null, video.srcObject = null
NoStream == 0
\* useState(null) of error
Null == "null"

Min(a, b) == IF a < b THEN a ELSE b

\* ------------------------------------------------------------ constraints
\* A MediaTrackConstraints value: which facing mode is asked for ("any" when
\* the key is absent) and the numbers asked for (0 when the key is absent).
Unconstrained ==
    [facingMode |-> "any", widthIdeal |-> 0, heightIdeal |-> 0,
     widthMax |-> 0, heightMax |-> 0, frameRateIdeal |-> 0, frameRateMax |-> 0]

constraintLevels(facing) ==
    << \* Level 0: { video: true, audio: false }
       Unconstrained,
       \* Level 1: facing mode
       [Unconstrained EXCEPT !.facingMode = facing],
       \* Level 2: 640 x 480
       [Unconstrained EXCEPT !.facingMode = facing,
                             !.widthIdeal = 640, !.heightIdeal = 480],
       \* Level 3: 1280 x 720
       [Unconstrained EXCEPT !.facingMode = facing,
                             !.widthIdeal = 1280, !.heightIdeal = 720],
       \* Level 4: full constraints
       [facingMode |-> facing, widthIdeal |-> 1280, heightIdeal |-> 720,
        widthMax |-> 1920, heightMax |-> 1080,
        frameRateIdeal |-> 30, frameRateMax |-> 60] >>

\* constraintLevels[Math.min(level, constraintLevels.length - 1)]
getConstraints(level, facing) ==
    constraintLevels(facing)[Min(level, Len(constraintLevels(facing)) - 1) + 1]

\* ------------------------------------------------------------ errors
\* What getUserMedia can reject with.
GumErrors ==
    { [name |-> "NotAllowedError", message |-> "Permission denied"],
      [name |-> "NotReadableError", message |-> "Could not start video source"],
      [name |-> "AbortError", message |-> ""] }

ErrNoStream == [name |-> "Error", message |-> "No camera stream received"]
ErrNoVideo == [name |-> "Error", message |-> "Video element not available"]
ErrVideoTimeout == [name |-> "Error", message |-> "Video load timeout"]
ErrVideoFailed == [name |-> "Error", message |-> "Video element failed to load stream"]

\* err.message?.includes(...)
AlreadyInUseMessages == {"Device already in use"}
VideoFailedMessages == {"Video element failed to load stream"}

\* variant: the raw message of the error is shown
getCameraErrorMessage_raw(err) == err.message

getCameraErrorMessage(err) ==
    IF err.name = "NotAllowedError"
    THEN "Camera access denied. Please allow camera permissions and refresh the page."
    ELSE IF err.name = "NotFoundError"
    THEN "No camera found. Please connect a camera and try again."
    ELSE IF err.name = "NotSupportedError"
    THEN "Camera not supported by this browser. Try using Chrome or Firefox."
    ELSE IF err.name = "NotReadableError" \/ err.message \in AlreadyInUseMessages
    THEN "Camera is busy. Please close other apps using the camera and try again."
    ELSE IF err.name = "OverconstrainedError"
    THEN "Camera settings not supported. Trying with basic settings..."
    ELSE IF err.message \in VideoFailedMessages
    THEN "Video display error. Please refresh the page and try again."
    ELSE "Camera error: " \o
         (IF err.message # "" THEN err.message
          ELSE "Please refresh the page and try again.")

\* ------------------------------------------------------------ state
VARIABLES
    \* ARViewer
    isMountedRef,        \* isMountedRef.current
    initPc,              \* where initializeApp is suspended
    initializationStep,
    isInitialized,
    currentLocation,
    locationError,
    rtkStatus,
    nearbyObjects,
    location,            \* initializeApp's local: what initializeLocation returned
    cameraActive,        \* passed to CameraView as isActive; onToggle sets it
    returned,            \* the initialization steps whose function has returned
    \* CameraView
    cvMounted,           \* "no" (not rendered yet), "yes", "gone" (unmounted)
    effectPending,       \* the [isActive] effect is due (mount, or isActive changed)
    isStreaming,
    error,
    cameraFacing,
    retryCount,
    isRetrying,
    streamRef,           \* streamRef.current
    srcObject,           \* videoRef.current.srcObject
    live,                \* acquired streams with un-stopped tracks
    calls,               \* the startCamera invocations
    presses,             \* button presses so far
    startPressed,        \* a button that starts the camera was pressed since
                         \* isActive last turned false
    onErrorArgs,         \* the onError calls made by the last step
    onToggleArgs,        \* the onToggle calls made by the last step
    \* blockdag-chain.js
    provider,            \* what `typeof window !== 'undefined' && window.ethereum`
                         \* finds
    switchCalls          \* the switchToBlockDAG invocations

arVars == <<isMountedRef, initPc, initializationStep, isInitialized,
            currentLocation, locationError, rtkStatus, nearbyObjects,
            location, returned>>
cvState == <<isStreaming, error, cameraFacing, retryCount, isRetrying>>
cvRefs == <<streamRef, srcObject, live>>
cvVars == <<cvMounted, effectPending, cvState, cvRefs, calls, presses,
            startPressed, onErrorArgs, onToggleArgs>>
walletVars == <<provider, switchCalls>>
vars == <<arVars, cameraActive, cvVars, walletVars>>

\* A startCamera invocation: its arguments (level, attempt), the cameraFacing
\* of the render it was called from, whether toggleCamera awaits it, and where
\* it is suspended:
\*   "switchWait" switchCamera's 300 ms before it calls startCamera
\*   "delay"      the wait before the request
\*   "gum"        getUserMedia requested, not settled
\*   "video"      waiting for the video element to load
\*   "resolved"   that wait has resolved; the rest of the attempt runs next
\*   "pause"      the 1000 ms after a failed attempt
\*   "done"       returned; result says how
\* requests lists the <<level, attempt>> of every getUserMedia request made,
\* failures counts the attempts that have failed.  facing is the cameraFacing
\* of the render the invocation was made from, switched tells that
\* switchCamera made it, and stream is the attempt's local `stream`.
IdleCall ==
    [pc |-> "idle", level |-> 0, attempt |-> 1, facing |-> "environment",
     notify |-> FALSE, switched |-> FALSE, stream |-> NoStream,
     result |-> "none", requests |-> <<>>, failures |-> 0]

NewCall(notify) ==
    [IdleCall EXCEPT !.pc = "delay", !.facing = cameraFacing, !.notify = notify]

DoneCall(result) == [IdleCall EXCEPT !.pc = "done", !.result = result]

InFlight(i) == calls[i].pc \notin {"idle", "done"}
FreeCalls == {i \in Calls : ~InFlight(i)}
FreeCall == CHOOSE i \in FreeCalls : \A j \in FreeCalls : i <= j

\* videoRef.current is the element while CameraView is mounted, else null
videoAvailable == cvMounted = "yes"

\* Nothing is queued to run before the next timer, event or settled request:
\* no continuation of a resolved video wait, no effect of the last render.
Quiescent ==
    /\ ~effectPending
    /\ \A i \in Calls : calls[i].pc # "resolved"

\* video.srcObject is assigned by invocation i (0: by stopCamera): the element
\* loads anew and rejects the pending play() of an invocation that waits for
\* it, whose play().catch resolves that wait.
Interrupt(i, cs) ==
    [j \in Calls |->
        IF j # i /\ videoAvailable /\ cs[j].pc = "video"
        THEN [cs[j] EXCEPT !.pc = "resolved"]
        ELSE cs[j]]

\* A stream object nobody holds any more can stand for the next one acquired.
FreeStreams ==
    Streams \ (live \cup {streamRef, srcObject}
                    \cup {calls[i].stream : i \in Calls})
NewStream == CHOOSE s \in FreeStreams : \A t \in FreeStreams : s <= t

\* ------------------------------------------------------------ wallet
\* The fields of BlockDAGTestnet that switchToBlockDAG reads.
BlockDAGTestnet ==
    [chainId |-> 1043,
     name |-> "BlockDAG Primordial Testnet",
     nativeCurrency |-> [name |-> "BDAG", symbol |-> "BDAG", decimals |-> 18],
     rpc |-> <<"https://test-rpc.primordial.bdagscan.com/">>,
     explorers |-> << [name |-> "BlockDAG Explorer",
                       url |-> "https://explorer-testnet.blockdag.org",
                       standard |-> "EIP3091"] >>]

HexDigit(d) ==
    <<"0", "1", "2", "3", "4", "5", "6", "7",
      "8", "9", "a", "b", "c", "d", "e", "f">>[d + 1]

\* Number.prototype.toString(16) of a natural number
RECURSIVE ToString16(_)
ToString16(n) ==
    IF n < 16 THEN HexDigit(n)
    ELSE ToString16(n \div 16) \o HexDigit(n % 16)

\* `0x${BlockDAGTestnet.chainId.toString(16)}`
ChainIdHex == "0x" \o ToString16(BlockDAGTestnet.chainId)

\* the argument of the first window.ethereum.request
SwitchRequest ==
    [method |-> "wallet_switchEthereumChain",
     params |-> << [chainId |-> ChainIdHex] >>]

\* the argument of the second window.ethereum.request
AddRequest ==
    [method |-> "wallet_addEthereumChain",
     params |-> << [chainId |-> ChainIdHex,
                    chainName |-> BlockDAGTestnet.name,
                    nativeCurrency |-> BlockDAGTestnet.nativeCurrency,
                    rpcUrls |-> BlockDAGTestnet.rpc,
                    blockExplorerUrls |->
                       [k \in DOMAIN BlockDAGTestnet.explorers |->
                           BlockDAGTestnet.explorers[k].url]] >>]

\* What `typeof window !== 'undefined' && window.ethereum` can find.
Providers == {"noWindow", "noEthereum", "ethereum"}

\* A JavaScript value read from an error's `code`: a number, a string, or
\* undefined when the error has none.
NumberCode(n) == [type |-> "number", value |-> n]
UnrecognizedChain == NumberCode(4902)
UserRejected == NumberCode(4001)
StringCode == [type |-> "string", value |-> 4902]
NoCode == [type |-> "undefined", value |-> 0]

\* What window.ethereum.request can fail with: a provider error with a
\* numeric code, an error whose code is the string "4902", and an error
\* without a code (a TypeError when `request` is not callable).
ProviderErrors ==
    { [code |-> c] : c \in {UnrecognizedChain, UserRejected, StringCode, NoCode} }

Resolved == [ok |-> TRUE, code |-> NoCode]
Rejected(err) == [ok |-> FALSE, code |-> err.code]

\* `switchError.code === 4902`
IsUnrecognizedChain(err) == err.code.type = "number" /\ err.code.value = 4902

\* A switchToBlockDAG invocation: where it is suspended ("idle" before the
\* call, "switch" and "add" at its two awaits, "returned", "threw"), the
\* value it returned, the requests it has made and how each one settled.
SwitchCalls == 1..MaxSwitchCalls
IdleSwitchCall ==
    [pc |-> "idle", value |-> FALSE, requests |-> <<>>, settled |-> <<>>]

\* What rtkLocationService.getEnhancedLocation can resolve with, and the
\* fallback location initializeLocation uses when it rejects.
NoLocation == [isFallback |-> FALSE, isRTKEnhanced |-> FALSE, source |-> "none"]
EnhancedLocations ==
    { [isFallback |-> FALSE, isRTKEnhanced |-> TRUE, source |-> "RTK Enhanced"],
      [isFallback |-> FALSE, isRTKEnhanced |-> FALSE, source |-> "Standard GPS"] }
fallbackLocation ==
    [isFallback |-> TRUE, isRTKEnhanced |-> FALSE, source |-> "Fallback Location"]
LocationErrors == {"Location unavailable"}

ViewerInit ==
    /\ isMountedRef = TRUE
    /\ initPc = "mount"
    /\ initializationStep = 0
    /\ isInitialized = FALSE
    /\ currentLocation = NoLocation
    /\ locationError = Null
    /\ rtkStatus = [isRTKEnhanced |-> FALSE, source |-> "Standard GPS"]
    /\ nearbyObjects = "[]"
    /\ location = NoLocation
    /\ cameraActive = FALSE
    /\ returned = {}
    /\ cvMounted = "no"
    /\ effectPending = FALSE
    /\ isStreaming = FALSE
    /\ error = Null
    /\ cameraFacing = "environment"
    /\ retryCount = 0
    /\ isRetrying = FALSE
    /\ streamRef = NoStream
    /\ srcObject = NoStream
    /\ live = {}
    /\ calls = [i \in Calls |-> IdleCall]
    /\ presses = 0
    /\ startPressed = FALSE
    /\ onErrorArgs = <<>>
    /\ onToggleArgs = <<>>

\* ARViewer as it mounts; nothing has called switchToBlockDAG
Init ==
    /\ ViewerInit
    /\ provider = "ethereum"
    /\ switchCalls = [i \in SwitchCalls |-> IdleSwitchCall]

\* ------------------------------------------------------------ ARViewer
\* `if (!isMountedRef.current) return;` after a step of initializeApp
AfterStep(next) == IF isMountedRef THEN next ELSE "done"

\* useEffect(() => { isMountedRef.current = true; initializeApp(); ... }, [])
\* up to the await in initializeLocation
InitializeApp ==
    /\ initPc = "mount"
    /\ isMountedRef' = TRUE
    /\ initializationStep' = 1
    /\ initPc' = "location"
    /\ UNCHANGED <<isInitialized, currentLocation, locationError, rtkStatus,
                   nearbyObjects, location, returned, cameraActive, cvVars, walletVars>>

\* getEnhancedLocation settles: the location, or the fallback location
InitializeLocationDone ==
    /\ initPc = "location"
    /\ \/ \E loc \in EnhancedLocations :
             /\ currentLocation' = loc
             /\ locationError' = Null
             /\ rtkStatus' = [isRTKEnhanced |-> loc.isRTKEnhanced,
                              source |-> loc.source]
             /\ location' = loc
       \/ \E msg \in LocationErrors :
             /\ locationError' = msg
             /\ currentLocation' = fallbackLocation
             /\ rtkStatus' = [isRTKEnhanced |-> FALSE,
                              source |-> "Fallback Location"]
             /\ location' = fallbackLocation
    /\ returned' = returned \cup {"location"}
    /\ initPc' = AfterStep("delay1")
    /\ UNCHANGED <<isMountedRef, initializationStep, isInitialized,
                   nearbyObjects, cameraActive, cvVars, walletVars>>

\* variant: initializeLocation() is not awaited, the camera step starts
\* while the location request is pending
InitializeCamera_early ==
    /\ initPc = "location"
    /\ initializationStep' = 2
    /\ initPc' = "camera"
    /\ UNCHANGED <<isMountedRef, isInitialized, currentLocation,
                   locationError, rtkStatus, nearbyObjects, location,
                   returned, cameraActive, cvVars, walletVars>>

\* after the first 1000 ms: initializeCamera up to its getUserMedia
InitializeCamera ==
    /\ initPc = "delay1"
    /\ IF isMountedRef
       THEN /\ initializationStep' = 2
            /\ initPc' = "camera"
       ELSE /\ initPc' = "done"
            /\ UNCHANGED initializationStep
    /\ UNCHANGED <<isMountedRef, isInitialized, currentLocation,
                   locationError, rtkStatus, nearbyObjects, location,
                   returned, cameraActive, cvVars, walletVars>>

\* initializeCamera's getUserMedia settles; a stream is stopped at once
InitializeCameraDone ==
    /\ initPc = "camera"
    /\ \E granted \in BOOLEAN : cameraActive' = granted
    /\ returned' = returned \cup {"camera"}
    /\ initPc' = AfterStep("delay2")
    /\ UNCHANGED <<isMountedRef, initializationStep, isInitialized,
                   currentLocation, locationError, rtkStatus, nearbyObjects,
                   location, cvVars, walletVars>>

\* after the second 1000 ms: refreshConnection is awaited
RefreshConnection ==
    /\ initPc = "delay2"
    /\ initPc' = IF isMountedRef THEN "refresh" ELSE "done"
    /\ UNCHANGED <<isMountedRef, initializationStep, isInitialized,
                   currentLocation, locationError, rtkStatus, nearbyObjects,
                   location, returned, cameraActive, cvVars, walletVars>>

\* refreshConnection resolves: loadNearbyObjects up to its getNearbyObjects
LoadNearbyObjects ==
    /\ initPc = "refresh"
    /\ initializationStep' = 3
    /\ initPc' = "objects"
    /\ UNCHANGED <<isMountedRef, isInitialized, currentLocation,
                   locationError, rtkStatus, nearbyObjects, location,
                   returned, cameraActive, cvVars, walletVars>>

\* variant: the catch only logs the error
InitializeAppCatch_silent ==
    /\ initPc = "refresh"
    /\ initPc' = "done"
    /\ UNCHANGED <<isMountedRef, initializationStep, isInitialized,
                   currentLocation, locationError, rtkStatus, nearbyObjects,
                   location, returned, cameraActive, cvVars, walletVars>>

\* refreshConnection rejects: initializeApp's catch
InitializeAppCatch ==
    /\ initPc = "refresh"
    /\ isInitialized' = (isMountedRef \/ isInitialized)
    /\ initPc' = "done"
    /\ UNCHANGED <<isMountedRef, initializationStep, currentLocation,
                   locationError, rtkStatus, nearbyObjects, location,
                   returned, cameraActive, cvVars, walletVars>>

\* getNearbyObjects settles: setNearbyObjects(objects || []), or [] in the catch
LoadNearbyObjectsDone ==
    /\ initPc = "objects"
    /\ \E objects \in {"[]", "objects"} : nearbyObjects' = objects
    /\ returned' = returned \cup {"objects"}
    /\ initPc' = AfterStep("delay3")
    /\ UNCHANGED <<isMountedRef, initializationStep, isInitialized,
                   currentLocation, locationError, rtkStatus, location,
                   cameraActive, cvVars, walletVars>>

\* after the 800 ms: step 4
InitializeAppComplete ==
    /\ initPc = "delay3"
    /\ IF isMountedRef
       THEN /\ initializationStep' = 4
            /\ isInitialized' = TRUE
       ELSE UNCHANGED <<initializationStep, isInitialized>>
    /\ initPc' = "done"
    /\ UNCHANGED <<isMountedRef, currentLocation, locationError, rtkStatus,
                   nearbyObjects, location, returned, cameraActive, cvVars, walletVars>>

\* ------------------------------------------------------------ CameraView
\* ARViewer renders <CameraView isActive={cameraActive} .../> once initialized
\* (selectedTab is 'viewer'); its effects are then due.
MountCameraView ==
    /\ isInitialized /\ isMountedRef
    /\ cvMounted = "no"
    /\ cvMounted' = "yes"
    /\ effectPending' = TRUE
    /\ UNCHANGED <<walletVars, arVars, cameraActive, cvState, cvRefs, calls, presses,
                   startPressed, onErrorArgs, onToggleArgs>>

\* onToggle(value) when toggleCamera makes the call: ARViewer's setCameraActive.
\* A changed isActive makes the [isActive] effect due.
OnToggle(called, value) ==
    IF called
    THEN /\ onToggleArgs' = <<value>>
         /\ cameraActive' = value
         /\ effectPending' = (cvMounted = "yes" /\ cameraActive # value)
         /\ startPressed' = (startPressed /\ value)
    ELSE /\ onToggleArgs' = <<>>
         /\ UNCHANGED <<cameraActive, effectPending, startPressed>>

\* startCamera(rec.level, rec.attempt) from its entry to the await of the delay
StartCameraBegin(i, rec) ==
    /\ error' = Null
    /\ isRetrying' = (rec.attempt > 1)
    /\ live' = live \ {streamRef}
    /\ streamRef' = NoStream
    /\ srcObject' = IF videoAvailable THEN NoStream ELSE srcObject
    /\ calls' = Interrupt(i, [calls EXCEPT
                                  ![i] = [rec EXCEPT !.pc = "delay"]])

\* the delay is over: getUserMedia(getConstraints(constraintLevel)) is requested
RequestCamera(i) ==
    /\ Quiescent
    /\ calls[i].pc = "delay"
    /\ calls' = [calls EXCEPT
          ![i].pc = "gum",
          ![i].requests = Append(@,
              [level |-> calls[i].level, attempt |-> calls[i].attempt,
               constraints |-> getConstraints(calls[i].level, calls[i].facing)])]
    /\ onErrorArgs' = <<>>
    /\ onToggleArgs' = <<>>
    /\ UNCHANGED <<walletVars, arVars, cameraActive, cvMounted, effectPending, cvState,
                   cvRefs, presses, startPressed>>

\* variant: `attempt <= maxAttempts`, one retry too many per level
RetryDecision_extraAttempt(level, attempt) ==
    IF attempt <= maxAttempts THEN "retry"
    ELSE IF level < maxConstraintLevels - 1 THEN "nextLevel"
    ELSE "giveUp"

\* the branch the catch block takes after attempt `attempt` at level `level`
RetryDecision(level, attempt) ==
    IF attempt < maxAttempts THEN "retry"
    ELSE IF level < maxConstraintLevels - 1 THEN "nextLevel"
    ELSE "giveUp"

\* the arguments of the startCamera call that follows the pause
NextTry(level, attempt) ==
    IF RetryDecision(level, attempt) = "retry"
    THEN [level |-> level, attempt |-> attempt + 1]
    ELSE [level |-> level + 1, attempt |-> 1]

\* The catch block of startCamera for error err, entered when streamRef.current
\* is ref and the live streams are lv; toggleCamera's continuation follows the
\* return when it awaited this invocation.
Catch(i, err, ref, lv) ==
    /\ live' = lv \ {ref}
    /\ streamRef' = NoStream
    /\ srcObject' = IF videoAvailable THEN NoStream ELSE srcObject
    /\ IF RetryDecision(calls[i].level, calls[i].attempt) = "giveUp"
       THEN /\ error' = getCameraErrorMessage(err)
            /\ isStreaming' = FALSE
            /\ retryCount' = 0
            /\ isRetrying' = FALSE
            /\ onErrorArgs' = <<err>>
            /\ calls' = Interrupt(i, [calls EXCEPT ![i] = DoneCall("gaveup")])
            /\ OnToggle(calls[i].notify, TRUE)
       ELSE /\ retryCount' =
                 IF RetryDecision(calls[i].level, calls[i].attempt) = "retry"
                 THEN calls[i].attempt ELSE 0
            /\ calls' = Interrupt(i, [calls EXCEPT ![i].pc = "pause",
                                                   ![i].stream = NoStream,
                                                   ![i].failures = @ + 1])
            /\ onErrorArgs' = <<>>
            /\ OnToggle(FALSE, TRUE)
            /\ UNCHANGED <<error, isStreaming, isRetrying>>
    /\ UNCHANGED <<walletVars, arVars, cvMounted, cameraFacing, presses>>

\* getUserMedia rejects
GetUserMediaRejects(i) ==
    /\ Quiescent
    /\ calls[i].pc = "gum"
    /\ \E err \in GumErrors : Catch(i, err, streamRef, live)

\* getUserMedia resolves with nothing, or with a stream that has no tracks
GetUserMediaEmpty(i) ==
    /\ Quiescent
    /\ calls[i].pc = "gum"
    /\ Catch(i, ErrNoStream, streamRef, live)

\* getUserMedia resolves with a stream: it becomes streamRef.current and, when
\* the video element exists, its srcObject
GetUserMediaResolves(i) ==
    /\ Quiescent
    /\ calls[i].pc = "gum"
    /\ FreeStreams # {}
    /\ IF videoAvailable
       THEN /\ streamRef' = NewStream
            /\ live' = live \cup {NewStream}
            /\ srcObject' = NewStream
            /\ calls' = Interrupt(i, [calls EXCEPT ![i].pc = "video",
                                                   ![i].stream = NewStream])
            /\ onErrorArgs' = <<>>
            /\ onToggleArgs' = <<>>
            /\ UNCHANGED <<walletVars, arVars, cameraActive, cvMounted, effectPending,
                           cvState, presses, startPressed>>
       ELSE Catch(i, ErrNoVideo, NewStream, live \cup {NewStream})

\* loadedmetadata fires or play() rejects, and the attempt has succeeded
VideoLoaded(i) ==
    /\ \/ calls[i].pc = "video" /\ Quiescent
       \/ calls[i].pc = "resolved"
    /\ isStreaming' = TRUE
    /\ retryCount' = 0
    /\ isRetrying' = FALSE
    /\ calls' = [calls EXCEPT ![i] = DoneCall("streaming")]
    /\ onErrorArgs' = <<>>
    /\ OnToggle(calls[i].notify, TRUE)
    /\ UNCHANGED <<walletVars, arVars, cvMounted, error, cameraFacing, cvRefs, presses>>

\* the video element reports an error, or the 5000 ms timeout fires
VideoFails(i) ==
    /\ Quiescent
    /\ calls[i].pc = "video"
    /\ \E err \in {ErrVideoFailed, ErrVideoTimeout} :
          Catch(i, err, streamRef, live)

\* the 1000 ms pause is over: startCamera is called for the next try
RetryCamera(i) ==
    /\ Quiescent
    /\ calls[i].pc = "pause"
    /\ StartCameraBegin(i,
          [calls[i] EXCEPT
              !.level = NextTry(calls[i].level, calls[i].attempt).level,
              !.attempt = NextTry(calls[i].level, calls[i].attempt).attempt])
    /\ onErrorArgs' = <<>>
    /\ onToggleArgs' = <<>>
    /\ UNCHANGED <<walletVars, arVars, cameraActive, cvMounted, effectPending,
                   isStreaming, cameraFacing, retryCount, presses,
                   startPressed>>

\* stopCamera()
StopCamera ==
    /\ live' = live \ {streamRef}
    /\ streamRef' = NoStream
    /\ srcObject' = IF videoAvailable THEN NoStream ELSE srcObject
    /\ isStreaming' = FALSE

\* stopCamera() in the cleanup of an unmount: React has cleared videoRef
StopCameraUnmounted ==
    /\ live' = live \ {streamRef}
    /\ streamRef' = NoStream
    /\ isStreaming' = FALSE
    /\ UNCHANGED srcObject

\* the Start Camera / Stop Camera button
ToggleCamera ==
    /\ Quiescent
    /\ cvMounted = "yes"
    /\ presses < MaxPresses
    /\ presses' = presses + 1
    /\ onErrorArgs' = <<>>
    /\ \/ /\ isStreaming
          /\ StopCamera
          /\ calls' = Interrupt(0, calls)
          /\ OnToggle(TRUE, FALSE)
          /\ UNCHANGED <<walletVars, arVars, cvMounted, error, cameraFacing, retryCount,
                         isRetrying>>
       \/ /\ ~isStreaming
          /\ FreeCalls # {}
          /\ StartCameraBegin(FreeCall, NewCall(TRUE))
          /\ startPressed' = TRUE
          /\ onToggleArgs' = <<>>
          /\ UNCHANGED <<walletVars, arVars, cameraActive, cvMounted, effectPending,
                         isStreaming, cameraFacing, retryCount>>

\* the Try Again button of the error display: startCamera(0, 1)
TryAgain ==
    /\ Quiescent
    /\ cvMounted = "yes"
    /\ presses < MaxPresses
    /\ error # Null
    /\ ~isRetrying
    /\ FreeCalls # {}
    /\ presses' = presses + 1
    /\ startPressed' = TRUE
    /\ StartCameraBegin(FreeCall, NewCall(FALSE))
    /\ onErrorArgs' = <<>>
    /\ onToggleArgs' = <<>>
    /\ UNCHANGED <<walletVars, arVars, cameraActive, cvMounted, effectPending,
                   isStreaming, cameraFacing, retryCount>>

\* the switch-camera button (rendered while streaming), up to the 300 ms wait;
\* the startCamera it will call belongs to the render the button was pressed in
SwitchCamera ==
    /\ Quiescent
    /\ cvMounted = "yes"
    /\ presses < MaxPresses
    /\ isStreaming
    /\ FreeCalls # {}
    /\ presses' = presses + 1
    /\ startPressed' = TRUE
    /\ cameraFacing' = IF cameraFacing = "environment" THEN "user"
                       ELSE "environment"
    /\ StopCamera
    /\ calls' = Interrupt(0, [calls EXCEPT
          ![FreeCall] = [NewCall(FALSE) EXCEPT !.pc = "switchWait",
                                               !.switched = TRUE]])
    /\ onErrorArgs' = <<>>
    /\ onToggleArgs' = <<>>
    /\ UNCHANGED <<walletVars, arVars, cameraActive, cvMounted, effectPending, error,
                   retryCount, isRetrying>>

\* switchCamera after its 300 ms: await startCamera()
SwitchCameraStart(i) ==
    /\ Quiescent
    /\ calls[i].pc = "switchWait"
    /\ StartCameraBegin(i, calls[i])
    /\ onErrorArgs' = <<>>
    /\ onToggleArgs' = <<>>
    /\ UNCHANGED <<walletVars, arVars, cameraActive, cvMounted, effectPending,
                   isStreaming, cameraFacing, retryCount, presses,
                   startPressed>>

\* useEffect(..., [isActive]): on mount and whenever isActive has changed
IsActiveEffect ==
    /\ effectPending
    /\ \A i \in Calls : calls[i].pc # "resolved"
    /\ effectPending' = FALSE
    /\ onErrorArgs' = <<>>
    /\ onToggleArgs' = <<>>
    /\ IF cameraActive /\ ~isStreaming
       THEN /\ StartCameraBegin(FreeCall, NewCall(FALSE))
            /\ UNCHANGED isStreaming
       ELSE IF ~cameraActive /\ isStreaming
       THEN /\ StopCamera
            /\ calls' = Interrupt(0, calls)
            /\ UNCHANGED <<error, isRetrying>>
       ELSE UNCHANGED <<isStreaming, error, isRetrying, cvRefs, calls>>
    /\ UNCHANGED <<walletVars, arVars, cameraActive, cvMounted, cameraFacing, retryCount,
                   presses, startPressed>>

\* CameraView unmounts (another tab is selected, or ARViewer unmounts): the
\* cleanup effect runs stopCamera and React clears videoRef
UnmountCameraView ==
    /\ Quiescent
    /\ cvMounted = "yes"
    /\ cvMounted' = "gone"
    /\ StopCameraUnmounted
    /\ onErrorArgs' = <<>>
    /\ onToggleArgs' = <<>>
    /\ UNCHANGED <<walletVars, arVars, cameraActive, effectPending, error, cameraFacing,
                   retryCount, isRetrying, calls, presses, startPressed>>

\* ARViewer unmounts while it initializes: the cleanup of its mount effect
UnmountARViewer ==
    /\ initPc # "mount"
    /\ cvMounted = "no"
    /\ isMountedRef
    /\ isMountedRef' = FALSE
    /\ UNCHANGED <<initPc, initializationStep, isInitialized,
                   currentLocation, locationError, rtkStatus, nearbyObjects,
                   location, returned, cameraActive, cvVars, walletVars>>

\* ------------------------------------------------------------ switchToBlockDAG
\* variant: any failure of the switch leads to wallet_addEthereumChain
SwitchRejects_addAlways(i) ==
    /\ switchCalls[i].pc = "switch"
    /\ \E err \in ProviderErrors :
          switchCalls' = [switchCalls EXCEPT
             ![i].pc = "add",
             ![i].settled = Append(@, Rejected(err)),
             ![i].requests = Append(@, AddRequest)]
    /\ UNCHANGED <<provider, arVars, cameraActive, cvVars>>

\* switchToBlockDAG() up to its first await, or to its return when there is
\* no window.ethereum
SwitchToBlockDAG(i) ==
    /\ switchCalls[i].pc = "idle"
    /\ switchCalls' = [switchCalls EXCEPT ![i] =
          IF provider = "ethereum"
          THEN [@ EXCEPT !.pc = "switch",
                         !.requests = Append(@, SwitchRequest)]
          ELSE [@ EXCEPT !.pc = "returned", !.value = FALSE]]
    /\ UNCHANGED <<provider, arVars, cameraActive, cvVars>>

\* wallet_switchEthereumChain succeeds: return true
SwitchResolves(i) ==
    /\ switchCalls[i].pc = "switch"
    /\ switchCalls' = [switchCalls EXCEPT
          ![i].pc = "returned",
          ![i].value = TRUE,
          ![i].settled = Append(@, Resolved)]
    /\ UNCHANGED <<provider, arVars, cameraActive, cvVars>>

\* wallet_switchEthereumChain fails: the chain is added when the code is 4902,
\* else return false
SwitchRejects(i) ==
    /\ switchCalls[i].pc = "switch"
    /\ \E err \in ProviderErrors :
          switchCalls' = [switchCalls EXCEPT ![i] =
             IF IsUnrecognizedChain(err)
             THEN [@ EXCEPT !.pc = "add",
                            !.settled = Append(@, Rejected(err)),
                            !.requests = Append(@, AddRequest)]
             ELSE [@ EXCEPT !.pc = "returned",
                            !.value = FALSE,
                            !.settled = Append(@, Rejected(err))]]
    /\ UNCHANGED <<provider, arVars, cameraActive, cvVars>>

\* wallet_addEthereumChain succeeds: return true
AddResolves(i) ==
    /\ switchCalls[i].pc = "add"
    /\ switchCalls' = [switchCalls EXCEPT
          ![i].pc = "returned",
          ![i].value = TRUE,
          ![i].settled = Append(@, Resolved)]
    /\ UNCHANGED <<provider, arVars, cameraActive, cvVars>>

\* wallet_addEthereumChain fails: return false
AddRejects(i) ==
    /\ switchCalls[i].pc = "add"
    /\ \E err \in ProviderErrors :
          switchCalls' = [switchCalls EXCEPT
             ![i].pc = "returned",
             ![i].value = FALSE,
             ![i].settled = Append(@, Rejected(err))]
    /\ UNCHANGED <<provider, arVars, cameraActive, cvVars>>

\* ------------------------------------------------------------ specification
\* variant: the video wait has no timeout and no event ends it
CallStep_noVideoEnd(i) ==
    \/ RequestCamera(i)
    \/ GetUserMediaRejects(i)
    \/ GetUserMediaEmpty(i)
    \/ GetUserMediaResolves(i)
    \/ RetryCamera(i)
    \/ SwitchCameraStart(i)

\* the steps of startCamera invocation i (and of the switchCamera that calls it)
CallStep(i) ==
    \/ RequestCamera(i)
    \/ GetUserMediaRejects(i)
    \/ GetUserMediaEmpty(i)
    \/ GetUserMediaResolves(i)
    \/ VideoLoaded(i)
    \/ VideoFails(i)
    \/ RetryCamera(i)
    \/ SwitchCameraStart(i)

InitStep ==
    \/ InitializeApp
    \/ InitializeLocationDone
    \/ InitializeCamera
    \/ InitializeCameraDone
    \/ RefreshConnection
    \/ LoadNearbyObjects
    \/ InitializeAppCatch
    \/ LoadNearbyObjectsDone
    \/ InitializeAppComplete

\* ARViewer from its mount to the first render of CameraView
InitNext ==
    \/ InitStep
    \/ UnmountARViewer
    \/ MountCameraView

InitSpec == Init /\ [][InitNext]_vars

\* Timers fire and awaited calls settle; an unmount may or may not happen.
FairInitSpec ==
    /\ InitSpec
    /\ WF_vars(InitStep)
    /\ WF_vars(MountCameraView)

\* CameraView as ARViewer first renders it: initializeApp has completed, and
\* cameraActive is what initializeCamera left.
CameraInit ==
    /\ isMountedRef = TRUE
    /\ initPc = "done"
    /\ initializationStep = 4
    /\ isInitialized = TRUE
    /\ currentLocation \in EnhancedLocations
    /\ currentLocation.isRTKEnhanced
    /\ locationError = Null
    /\ rtkStatus = [isRTKEnhanced |-> TRUE, source |-> currentLocation.source]
    /\ nearbyObjects = "objects"
    /\ location = currentLocation
    /\ cameraActive \in BOOLEAN
    /\ returned = {"location", "camera", "objects"}
    /\ cvMounted = "yes"
    /\ effectPending = TRUE
    /\ isStreaming = FALSE
    /\ error = Null
    /\ cameraFacing = "environment"
    /\ retryCount = 0
    /\ isRetrying = FALSE
    /\ streamRef = NoStream
    /\ srcObject = NoStream
    /\ live = {}
    /\ calls = [i \in Calls |-> IdleCall]
    /\ presses = 0
    /\ startPressed = FALSE
    /\ onErrorArgs = <<>>
    /\ onToggleArgs = <<>>
    /\ provider = "ethereum"
    /\ switchCalls = [i \in SwitchCalls |-> IdleSwitchCall]

Next ==
    \/ IsActiveEffect
    \/ \E i \in Calls : CallStep(i)
    \/ ToggleCamera
    \/ TryAgain
    \/ SwitchCamera
    \/ UnmountCameraView

Spec == CameraInit /\ [][Next]_vars

\* Timers fire and awaited calls settle; the user and the unmount are free.
FairSpec ==
    /\ Spec
    /\ WF_vars(IsActiveEffect)
    /\ \A i \in Calls : WF_vars(CallStep(i))

\* The page before ARViewer has mounted, with or without a wallet extension.
WalletInit ==
    /\ ViewerInit
    /\ provider \in Providers
    /\ switchCalls = [i \in SwitchCalls |-> IdleSwitchCall]

WalletNext ==
    \E i \in SwitchCalls :
       \/ SwitchToBlockDAG(i)
       \/ SwitchResolves(i)
       \/ SwitchRejects(i)
       \/ AddResolves(i)
       \/ AddRejects(i)

WalletSpec == WalletInit /\ [][WalletNext]_vars

\* ------------------------------------------------------------ properties
\* What a constraints value demands is no more than what `earlier` demands:
\* it names a facing mode only if `earlier` names the same one, and asks for
\* no higher resolution or frame rate and no bound that `earlier` lacks.
NoMoreDemanding(later, earlier) ==
    /\ later.facingMode \in {"any", earlier.facingMode}
    /\ later.widthIdeal <= earlier.widthIdeal
    /\ later.heightIdeal <= earlier.heightIdeal
    /\ later.frameRateIdeal <= earlier.frameRateIdeal
    /\ later.widthMax # 0 => earlier.widthMax # 0
    /\ later.heightMax # 0 => earlier.heightMax # 0
    /\ later.frameRateMax # 0 => earlier.frameRateMax # 0

\* C1: within one startCamera invocation, the constraints of every request
\* demand no more than the constraints of the request before it (the fallback
\* levels are a progressive relaxation).
C1_ProgressiveRelaxation ==
    \A i \in Calls :
        \A k \in 1..Len(calls[i].requests) :
            k > 1 => NoMoreDemanding(calls[i].requests[k].constraints,
                                     calls[i].requests[k - 1].constraints)

\* C2: within one invocation the k-th getUserMedia request is attempt
\* ((k-1) mod 3) + 1 at level (k-1) div 3 (level 0 attempts 1,2,3, ... level 4
\* attempts 1,2,3), at most 15 requests are made, and a request is outstanding
\* only when every earlier attempt has failed.
C2_RequestSchedule ==
    \A i \in Calls :
        /\ Len(calls[i].requests) <= 15
        /\ \A k \in 1..Len(calls[i].requests) :
              /\ calls[i].requests[k].level = (k - 1) \div 3
              /\ calls[i].requests[k].attempt = ((k - 1) % 3) + 1
              /\ calls[i].requests[k].level <= 4
              /\ calls[i].requests[k].attempt <= 3
        /\ calls[i].pc \in {"gum", "video"} =>
              calls[i].failures = Len(calls[i].requests) - 1
        /\ calls[i].pc \in {"delay", "pause"} =>
              calls[i].failures = Len(calls[i].requests)

\* the last request of the schedule, level 4 attempt 3, is outstanding
C2_Witness ==
    \E i \in Calls :
        /\ calls[i].pc = "gum"
        /\ Len(calls[i].requests) = 15
        /\ calls[i].level = 4 /\ calls[i].attempt = 3

\* steps of invocation i: an attempt fails; the invocation gives up
AttemptFails(i) ==
    /\ calls[i].pc \in {"gum", "video"}
    /\ \/ calls'[i].pc = "pause"
       \/ calls'[i].pc = "done" /\ calls'[i].result = "gaveup"

GivesUp(i) ==
    /\ InFlight(i)
    /\ calls'[i].pc = "done" /\ calls'[i].result = "gaveup"

\* C3: an invocation gives up exactly when attempt 3 at level 4 fails; the
\* step leaves error a non-empty message (that of the failing attempt's
\* error), isStreaming false, retryCount 0, isRetrying false and streamRef
\* null, and calls onError once, with that error; no other step calls onError.
C3_GiveUp ==
    [][ /\ \A i \in Calls :
              /\ GivesUp(i) <=>
                    (AttemptFails(i) /\ calls[i].level = 4
                        /\ calls[i].attempt = 3)
              /\ GivesUp(i) =>
                    /\ Len(onErrorArgs') = 1
                    /\ error' = getCameraErrorMessage(onErrorArgs'[1])
                    /\ error' \notin {Null, ""}
                    /\ ~isStreaming'
                    /\ retryCount' = 0
                    /\ ~isRetrying'
                    /\ streamRef' = NoStream
        /\ onErrorArgs' # <<>> => \E i \in Calls : GivesUp(i)
      ]_vars

\* an invocation has given up and onError was called with an error whose
\* message is empty
C3_Witness ==
    /\ \E i \in Calls : calls[i].pc = "done" /\ calls[i].result = "gaveup"
    /\ Len(onErrorArgs) = 1
    /\ onErrorArgs[1].message = ""
    /\ error # Null

\* C4: every startCamera invocation returns (timers fire and requests settle),
\* and the step that returns leaves isStreaming true or error set.
C4_Terminates ==
    /\ \A i \in Calls : []<>(~InFlight(i))
    /\ [][\A i \in Calls :
            (InFlight(i) /\ calls'[i].pc = "done") =>
                \/ calls'[i].result = "streaming" /\ isStreaming'
                \/ calls'[i].result = "gaveup" /\ error' # Null]_vars

\* one invocation has returned streaming and another has given up
C4_Witness ==
    \E i, j \in Calls :
        /\ calls[i].pc = "done" /\ calls[i].result = "streaming"
        /\ calls[j].pc = "done" /\ calls[j].result = "gaveup"

\* C5: initializationStep goes 0, 1, 2, 3, 4 without going back; step 2 is
\* set only after initializeLocation returned a location, step 3 only after
\* initializeCamera returned, step 4 only after loadNearbyObjects returned.
C5_StepOrder ==
    /\ [][initializationStep' \in
            {initializationStep, initializationStep + 1}]_vars
    /\ [](initializationStep >= 2 =>
            /\ "location" \in returned
            /\ location \in EnhancedLocations \cup {fallbackLocation}
            /\ currentLocation = location)
    /\ [](initializationStep >= 3 => "camera" \in returned)
    /\ [](initializationStep >= 4 => "objects" \in returned)

\* initialization has reached step 4
C5_Witness ==
    /\ initializationStep = 4
    /\ returned = {"location", "camera", "objects"}

\* C6: if ARViewer stays mounted, isInitialized eventually becomes true.
C6_EventuallyInitialized == ([]isMountedRef) => <>isInitialized

\* initialized although the location was a fallback, the camera was refused
\* and the database connection failed
C6_Witness ==
    /\ isInitialized
    /\ currentLocation = fallbackLocation
    /\ ~cameraActive
    /\ initializationStep = 2

\* C7: at most one acquired stream has un-stopped tracks, and it is the one
\* streamRef holds.
C7_SingleLiveStream == live \subseteq {streamRef}

\* C8: once CameraView is unmounted and every startCamera invocation has
\* returned, no acquired stream has un-stopped tracks.
C8_NoLiveStreamAfterUnmount ==
    (cvMounted = "gone" /\ \A i \in Calls : ~InFlight(i)) => live = {}

\* C9: when isActive is false, no button that starts the camera was pressed
\* since it turned false, and no startCamera invocation is in flight, the
\* camera is off: isStreaming is false and streamRef is null.
C9_FollowsIsActive ==
    ( /\ cvMounted = "yes" /\ ~effectPending
      /\ ~cameraActive /\ ~startPressed
      /\ \A i \in Calls : ~InFlight(i) )
    => (~isStreaming /\ streamRef = NoStream)

\* C10: a step that calls onToggle(true) leaves isStreaming true, and a step
\* that calls onToggle(false) leaves the camera stopped.
C10_ToggleReportsState ==
    /\ onToggleArgs = <<TRUE>> => isStreaming
    /\ onToggleArgs = <<FALSE>> => (~isStreaming /\ streamRef = NoStream)


\* the facing mode switchCamera sets when the one in use is f
OtherFacing(f) == IF f = "environment" THEN "user" ELSE "environment"

\* a step of the switch-camera button
SwitchPressed == presses' # presses /\ cameraFacing' # cameraFacing

\* C11: switchCamera, invoked while streaming, stops the current stream and
\* flips cameraFacing without requesting anything in that step, and every
\* getUserMedia request of the startCamera it then calls asks for the new
\* facing mode, the opposite of the one in use when the button was pressed.
C11_SwitchFacing ==
    /\ [][SwitchPressed =>
             /\ cameraFacing' = OtherFacing(cameraFacing)
             /\ ~isStreaming'
             /\ streamRef' = NoStream
             /\ streamRef \notin live'
             /\ \A i \in Calls :
                   calls'[i].pc = "gum" => calls[i].pc = "gum"]_vars
    /\ [](\A i \in Calls :
             calls[i].switched =>
                \A k \in 1..Len(calls[i].requests) :
                   calls[i].requests[k].constraints.facingMode
                      = OtherFacing(calls[i].facing))

\* attempt i of startCamera succeeds in this step
AttemptSucceeds(i) == InFlight(i) /\ calls'[i].result = "streaming"

\* C12: when an attempt of startCamera succeeds, isStreaming is true, error
\* is null, retryCount is 0, isRetrying is false, and streamRef holds the
\* stream that attempt's getUserMedia request returned, which has a track and
\* is the video element's srcObject.
C12_SuccessState ==
    [][\A i \in Calls :
          AttemptSucceeds(i) =>
             /\ isStreaming'
             /\ error' = Null
             /\ retryCount' = 0
             /\ ~isRetrying'
             /\ calls[i].stream # NoStream
             /\ streamRef' = calls[i].stream
             /\ srcObject' = calls[i].stream]_vars

\* request k of invocation c failed with the number 4902 as its code
FailedWith4902(c, k) ==
    /\ k <= Len(c.settled)
    /\ ~c.settled[k].ok
    /\ c.settled[k].code = NumberCode(4902)

\* request k of invocation c succeeded
Succeeded(c, k) == k <= Len(c.settled) /\ c.settled[k].ok

====
